---- MODULE Spec2Model ----
(***************************************************************************)
(* Model of the Claude Code log store defined by the DDL string SCHEMA in  *)
(* src/src/claude_code_log_tools/schema.py: the tables sessions, messages, *)
(* content_blocks and import_metadata, their constraints (NOT NULL,        *)
(* UNIQUE, PRIMARY KEY, REFERENCES ... ON DELETE CASCADE, DEFAULT,         *)
(* GENERATED ALWAYS ... STORED), and the row writes the storage engine     *)
(* accepts or rejects against them.                                        *)
(*                                                                         *)
(* An SQL value is NULL (the empty tuple) or V(x) (a one-element tuple).   *)
(* An INSERT is given as a record whose domain is the statement's column   *)
(* list: a column that is not in the domain takes its DEFAULT.             *)
(* Columns that carry no constraint, default or relationship and that no   *)
(* statement here reads (project_path and summary of sessions, role, cwd   *)
(* and version of messages, the tool_* columns) are left out of the rows.  *)
(***************************************************************************)
EXTENDS Integers, Sequences, FiniteSets, TLC

\* ------------------------------------------------------------------------
\* Bounds of the model
\* ------------------------------------------------------------------------
MaxInserts == 4
MaxTokenInserts == 4
MaxSearchInserts == 4
MaxTimestamp == 3
MaxPasses == 2

\* ------------------------------------------------------------------------
\* SQL values
\* ------------------------------------------------------------------------
NULL == <<>>
V(x) == <<x>>
IsNull(v) == v = NULL
Val(v) == v[1]

\* The value an INSERT stores in column c: the supplied one, else the default.
Col(r, c, default) == IF c \in DOMAIN r THEN r[c] ELSE default

VARIABLES sessions, messages, content_blocks, import_metadata,
          sessions_id_seq, messages_id_seq, content_blocks_id_seq, last,
          logfile, imp, origin

tables == <<sessions, messages, content_blocks, import_metadata>>
seqs == <<sessions_id_seq, messages_id_seq, content_blocks_id_seq>>
importer == <<logfile, imp, origin>>
vars == <<sessions, messages, content_blocks, import_metadata,
          sessions_id_seq, messages_id_seq, content_blocks_id_seq, last,
          logfile, imp, origin>>


\* ------------------------------------------------------------------------
\* Full-text search vector: to_tsvector('english', text)
\* ------------------------------------------------------------------------
\* A text is the sequence of the words the text-search parser splits it into.
\* The 'english' configuration lower-cases each word, drops the stop words
\* (their positions are still counted) and stems the rest; the vector is the
\* set of <<lexeme, position>> pairs.
Words == {"Hello", "hello", "Worlds", "world", "The"}

Lower(w) ==
  CASE w = "Hello" -> "hello"
    [] w = "Worlds" -> "worlds"
    [] w = "The" -> "the"
    [] OTHER -> w

StopWords == {"the"}

Stem(w) ==
  CASE w = "worlds" -> "world"
    [] OTHER -> w

to_tsvector(text) ==
  { <<Stem(Lower(text[i])), i>> :
      i \in { j \in 1..Len(text) : Lower(text[j]) \notin StopWords } }

\* COALESCE(text_content, '')
Coalesce(v, d) == IF IsNull(v) THEN d ELSE Val(v)

\* content_tsvector GENERATED ALWAYS AS
\*   (to_tsvector('english', COALESCE(text_content, ''))) STORED
ContentTsvector(text_content) == to_tsvector(Coalesce(text_content, <<>>))

\* ------------------------------------------------------------------------
\* Rows and constraint checks
\* ------------------------------------------------------------------------
\* A variant in which the session token columns have no DEFAULT clause.
SessionTokensDefaultNull == NULL

\* total_input_tokens INT DEFAULT 0, total_output_tokens INT DEFAULT 0
SessionTokensDefault == V(0)

\* input_tokens INT, output_tokens INT (no DEFAULT clause: the default is NULL)
MessageTokensDefault == NULL

SessionsRow(r, id) ==
  [ id |-> id,
    session_uuid |-> Col(r, "session_uuid", NULL),
    total_input_tokens |-> Col(r, "total_input_tokens", SessionTokensDefault),
    total_output_tokens |-> Col(r, "total_output_tokens", SessionTokensDefault) ]

\* id SERIAL PRIMARY KEY: the id is the supplied one, else the value drawn
\* from the table's sequence.
RowId(r, drawn) == Col(r, "id", V(drawn))

\* The number stored as id (0 stands in for a null id, which is never stored).
IdOf(idv) == IF IsNull(idv) THEN 0 ELSE Val(idv)

\* id SERIAL PRIMARY KEY
SessionsIdConflict(row) == \E s \in sessions : s.id = row.id

\* session_uuid UUID UNIQUE NOT NULL
SessionsUuidConflict(row) ==
  \E s \in sessions : s.session_uuid = row.session_uuid

SessionsCheck(row) ==
  IF IsNull(row.session_uuid) THEN "not_null_violation"
  ELSE IF SessionsIdConflict(row) \/ SessionsUuidConflict(row)
  THEN "unique_violation"
  ELSE "ok"

MessagesRow(r, id) ==
  [ id |-> id,
    session_id |-> Col(r, "session_id", NULL),
    uuid |-> Col(r, "uuid", NULL),
    type |-> Col(r, "type", NULL),
    input_tokens |-> Col(r, "input_tokens", MessageTokensDefault),
    output_tokens |-> Col(r, "output_tokens", MessageTokensDefault) ]

\* A variant without the unique index.
MessagesUuidConflictNoIndex(row) == FALSE

\* CREATE UNIQUE INDEX idx_messages_uuid_unique ON messages(uuid)
\*   WHERE uuid IS NOT NULL
MessagesUuidConflict(row) ==
  /\ ~IsNull(row.uuid)
  /\ \E m \in messages : m.uuid = row.uuid

\* id SERIAL PRIMARY KEY
MessagesIdConflict(row) == \E m \in messages : m.id = row.id

\* A variant without the foreign key.
MessagesSessionExistsNoFk(row) == TRUE

\* session_id INT NOT NULL REFERENCES sessions(id)
MessagesSessionExists(row) ==
  \E s \in sessions : s.id = Val(row.session_id)

\* NOT NULL is checked when the row is formed, the unique index when the row
\* is stored, the foreign key at the end of the statement.
MessagesCheck(row) ==
  IF IsNull(row.session_id) \/ IsNull(row.type) THEN "not_null_violation"
  ELSE IF MessagesIdConflict(row) \/ MessagesUuidConflict(row)
  THEN "unique_violation"
  ELSE IF ~MessagesSessionExists(row) THEN "foreign_key_violation"
  ELSE "ok"

\* A variant in which block_index is drawn from the row's serial number.
ContentBlocksRowSerialIndex(r, id) ==
  [ id |-> id,
    message_id |-> Col(r, "message_id", NULL),
    block_index |-> V(id),
    block_type |-> Col(r, "block_type", NULL),
    text_content |-> Col(r, "text_content", NULL),
    content_tsvector |-> ContentTsvector(Col(r, "text_content", NULL)) ]

ContentBlocksRow(r, id) ==
  [ id |-> id,
    message_id |-> Col(r, "message_id", NULL),
    block_index |-> Col(r, "block_index", NULL),
    block_type |-> Col(r, "block_type", NULL),
    text_content |-> Col(r, "text_content", NULL),
    content_tsvector |-> ContentTsvector(Col(r, "text_content", NULL)) ]

\* message_id INT NOT NULL REFERENCES messages(id)
ContentBlocksMessageExists(row) ==
  \E m \in messages : m.id = Val(row.message_id)

\* id SERIAL PRIMARY KEY
ContentBlocksIdConflict(row) == \E b \in content_blocks : b.id = row.id

\* A variant with a UNIQUE (message_id, block_index) constraint.
ContentBlocksCheckUnique(row) ==
  IF IsNull(row.message_id) \/ IsNull(row.block_index) \/ IsNull(row.block_type)
  THEN "not_null_violation"
  ELSE IF \/ ContentBlocksIdConflict(row)
          \/ \E b \in content_blocks :
               b.message_id = row.message_id /\ b.block_index = row.block_index
  THEN "unique_violation"
  ELSE IF ~ContentBlocksMessageExists(row) THEN "foreign_key_violation"
  ELSE "ok"

ContentBlocksCheck(row) ==
  IF IsNull(row.message_id) \/ IsNull(row.block_index) \/ IsNull(row.block_type)
  THEN "not_null_violation"
  ELSE IF ContentBlocksIdConflict(row) THEN "unique_violation"
  ELSE IF ~ContentBlocksMessageExists(row) THEN "foreign_key_violation"
  ELSE "ok"

ImportMetadataRow(r) ==
  [ project_path |-> Col(r, "project_path", NULL),
    last_import_timestamp |-> Col(r, "last_import_timestamp", NULL) ]

\* A variant without the primary key.
ImportMetadataConflictNoKey(row) == FALSE

\* project_path TEXT PRIMARY KEY
ImportMetadataConflict(row) ==
  \E i \in import_metadata : i.project_path = row.project_path

\* PRIMARY KEY implies NOT NULL; last_import_timestamp TIMESTAMPTZ NOT NULL
ImportMetadataNotNull(row) ==
  ~IsNull(row.project_path) /\ ~IsNull(row.last_import_timestamp)

\* ON DELETE CASCADE of messages.session_id: the messages of deleted sessions.
CascadeMessages(deleted) ==
  { m \in messages : \E s \in deleted : m.session_id = V(s.id) }

\* A variant whose foreign key does not cascade.
CascadeBlocksNone(deleted) == {}

\* ON DELETE CASCADE of content_blocks.message_id: the blocks of deleted messages.
CascadeBlocks(deleted) ==
  { b \in content_blocks : \E m \in deleted : b.message_id = V(m.id) }

\* ------------------------------------------------------------------------
\* Statements: one row write each, atomic, recorded in last
\* ------------------------------------------------------------------------
\* Rows in the four tables.
InsertsBegun == sessions_id_seq + messages_id_seq + content_blocks_id_seq

RowCount ==
  Cardinality(sessions) + Cardinality(messages) + Cardinality(content_blocks)
    + Cardinality(import_metadata)

\* What is known of the last statement: its kind, its outcome, the id it
\* drew or addressed, its input, and the row count it found.
Done(op, err, id, arg) ==
  [op |-> op, err |-> err, id |-> id, arg |-> arg, before |-> RowCount]

\* INSERT INTO sessions (columns of r) VALUES (r).  Unless r supplies an id,
\* id SERIAL takes the next value of the sequence, which a rejected insert
\* does not give back; a supplied id leaves the sequence alone.  A null id
\* violates the primary key's NOT NULL.
InsertSessionStmt(r) ==
  LET drawn == sessions_id_seq + 1
      idv == RowId(r, drawn)
      id == IdOf(idv)
      row == SessionsRow(r, id)
      err == IF IsNull(idv) THEN "not_null_violation" ELSE SessionsCheck(row)
  IN /\ sessions_id_seq' = IF "id" \in DOMAIN r THEN sessions_id_seq ELSE drawn
     /\ sessions' = IF err = "ok" THEN sessions \cup {row} ELSE sessions
     /\ last' = Done("insert_session", err, id, r)
     /\ UNCHANGED <<messages, content_blocks, import_metadata,
                    messages_id_seq, content_blocks_id_seq>>

\* INSERT INTO messages (columns of r) VALUES (r)
InsertMessageStmt(r) ==
  LET drawn == messages_id_seq + 1
      idv == RowId(r, drawn)
      id == IdOf(idv)
      row == MessagesRow(r, id)
      err == IF IsNull(idv) THEN "not_null_violation" ELSE MessagesCheck(row)
  IN /\ messages_id_seq' = IF "id" \in DOMAIN r THEN messages_id_seq ELSE drawn
     /\ messages' = IF err = "ok" THEN messages \cup {row} ELSE messages
     /\ last' = Done("insert_message", err, id, r)
     /\ UNCHANGED <<sessions, content_blocks, import_metadata,
                    sessions_id_seq, content_blocks_id_seq>>

\* INSERT INTO content_blocks (columns of r) VALUES (r).  A value for the
\* generated column is refused before the statement runs.
InsertBlockStmt(r) ==
  IF "content_tsvector" \in DOMAIN r
  THEN /\ last' = Done("insert_block", "generated_always", 0, r)
       /\ UNCHANGED <<tables, seqs>>
  ELSE LET drawn == content_blocks_id_seq + 1
           idv == RowId(r, drawn)
           id == IdOf(idv)
           row == ContentBlocksRow(r, id)
           err == IF IsNull(idv) THEN "not_null_violation"
                  ELSE ContentBlocksCheck(row)
       IN /\ content_blocks_id_seq' =
               IF "id" \in DOMAIN r THEN content_blocks_id_seq ELSE drawn
          /\ content_blocks' =
               IF err = "ok" THEN content_blocks \cup {row} ELSE content_blocks
          /\ last' = Done("insert_block", err, id, r)
          /\ UNCHANGED <<sessions, messages, import_metadata,
                         sessions_id_seq, messages_id_seq>>

\* DELETE FROM sessions WHERE id = sid
DeleteSessionStmt(sid) ==
  LET ds == { s \in sessions : s.id = sid }
      dm == CascadeMessages(ds)
      db == CascadeBlocks(dm)
  IN /\ sessions' = sessions \ ds
     /\ messages' = messages \ dm
     /\ content_blocks' = content_blocks \ db
     /\ last' = Done("delete_session", "ok", sid, NULL)
     /\ UNCHANGED <<import_metadata, seqs>>

\* DELETE FROM messages WHERE id = mid
DeleteMessageStmt(mid) ==
  LET dm == { m \in messages : m.id = mid }
      db == CascadeBlocks(dm)
  IN /\ messages' = messages \ dm
     /\ content_blocks' = content_blocks \ db
     /\ last' = Done("delete_message", "ok", mid, NULL)
     /\ UNCHANGED <<sessions, import_metadata, seqs>>

\* A variant that leaves the stored vector as it was.
UpdatedBlockStale(b, text) == [b EXCEPT !.text_content = text]

\* The row an UPDATE of text_content writes: the generated column is
\* recomputed in the same row write.
UpdatedBlock(b, text) ==
  [b EXCEPT !.text_content = text, !.content_tsvector = ContentTsvector(text)]

\* UPDATE content_blocks SET text_content = text WHERE id = bid
UpdateBlockTextStmt(bid, text) ==
  /\ content_blocks' =
       { IF b.id = bid THEN UpdatedBlock(b, text) ELSE b : b \in content_blocks }
  /\ last' = Done("update_block_text", "ok", bid, text)
  /\ UNCHANGED <<sessions, messages, import_metadata, seqs>>

\* UPDATE content_blocks SET content_tsvector = tsv WHERE id = bid
UpdateBlockTsvectorStmt(bid, tsv) ==
  /\ last' = Done("update_block_tsvector", "generated_always", bid, tsv)
  /\ UNCHANGED <<tables, seqs>>

\* The row an UPDATE of message_id and / or block_index writes: the columns
\* that set names take its values, the others stay.
MovedBlock(b, set) ==
  [b EXCEPT !.message_id = Col(set, "message_id", b.message_id),
            !.block_index = Col(set, "block_index", b.block_index)]

\* UPDATE content_blocks SET (columns of set) = (set) WHERE id = bid, for the
\* columns message_id and block_index.  No row with that id: nothing to
\* write and no error.  Otherwise NOT NULL and the foreign key are checked on
\* the new row; no constraint looks at the other blocks of the message.
UpdateBlockPlaceStmt(bid, set) ==
  LET old == { b \in content_blocks : b.id = bid }
      err == IF old = {} THEN "ok"
             ELSE IF \E b \in old : \/ IsNull(MovedBlock(b, set).message_id)
                                    \/ IsNull(MovedBlock(b, set).block_index)
             THEN "not_null_violation"
             ELSE IF \E b \in old : ~ContentBlocksMessageExists(MovedBlock(b, set))
             THEN "foreign_key_violation"
             ELSE "ok"
  IN /\ content_blocks' =
          IF err = "ok"
          THEN { IF b.id = bid THEN MovedBlock(b, set) ELSE b : b \in content_blocks }
          ELSE content_blocks
     /\ last' = Done("update_block_place", err, bid, set)
     /\ UNCHANGED <<sessions, messages, import_metadata, seqs>>

\* INSERT INTO import_metadata (columns of r) VALUES (r)
InsertImportMetadataStmt(r) ==
  LET row == ImportMetadataRow(r)
      err == IF ~ImportMetadataNotNull(row) THEN "not_null_violation"
             ELSE IF ImportMetadataConflict(row) THEN "unique_violation"
             ELSE "ok"
  IN /\ import_metadata' =
          IF err = "ok" THEN import_metadata \cup {row} ELSE import_metadata
     /\ last' = Done("insert_import_metadata", err, 0, r)
     /\ UNCHANGED <<sessions, messages, content_blocks, seqs>>

\* INSERT INTO import_metadata (columns of r) VALUES (r)
\*   ON CONFLICT (project_path) DO UPDATE
\*   SET last_import_timestamp = EXCLUDED.last_import_timestamp
UpsertImportMetadataStmt(r) ==
  LET row == ImportMetadataRow(r)
      err == IF ~ImportMetadataNotNull(row) THEN "not_null_violation" ELSE "ok"
  IN /\ import_metadata' =
          IF err = "ok"
          THEN { i \in import_metadata : i.project_path # row.project_path }
                 \cup {row}
          ELSE import_metadata
     /\ last' = Done("upsert_import_metadata", err, 0, r)
     /\ UNCHANGED <<sessions, messages, content_blocks, seqs>>

\* ------------------------------------------------------------------------
\* Clients of the store: any statement, with any input of the sets below
\* ------------------------------------------------------------------------
SessionUuids == {"s1", "s2"}
MessageUuids == {"m1", "m2"}
BlockIndexes == {0, 1}
ProjectPaths == {"/repo/a", "/repo/b"}
TokenValues == {NULL, V(7)}
Texts == {NULL, V(<<>>), V(<<"Hello", "Worlds">>), V(<<"The", "world">>),
          V(<<"hello", "world">>)}
Nullable(S) == {NULL} \cup {V(x) : x \in S}

\* Ids a client supplies instead of drawing one from the sequence.
ExplicitIds == {NULL, V(1)}

\* Inputs that exercise the keys and the relationships of the three tables.

SessionInputs ==
  [session_uuid : Nullable(SessionUuids)]
  \cup [id : ExplicitIds, session_uuid : {V("s2")}]

Values(S) == {V(x) : x \in S}

\* Well-formed rows, which the keys may still refuse, and one row for each
\* way of leaving a required column out or null.
MessageInputs ==
  [session_id : Values(1..MaxInserts), uuid : Nullable(MessageUuids),
   type : {V("user")}]
  \cup { [session_id |-> V(1), uuid |-> NULL],
         [uuid |-> NULL, type |-> V("user")],
         [session_id |-> NULL, uuid |-> V("m1"), type |-> V("user")],
         [session_id |-> V(1), uuid |-> V("m1"), type |-> NULL] }
  \cup [id : ExplicitIds, session_id : {V(1)}, uuid : {NULL},
        type : {V("user")}]

BlockInputs ==
  [message_id : Values(1..MaxInserts), block_index : Values(BlockIndexes),
   block_type : {V("text")}]
  \cup { [message_id |-> V(1), block_type |-> V("text")],
         [message_id |-> V(1), block_index |-> V(0)],
         [block_index |-> V(0), block_type |-> V("text")],
         [message_id |-> NULL, block_index |-> V(0), block_type |-> V("text")],
         [message_id |-> V(1), block_index |-> V(0), block_type |-> V("text"),
          content_tsvector |-> ContentTsvector(NULL)] }
  \cup [id : ExplicitIds, message_id : {V(1)}, block_index : {V(0)},
        block_type : {V("text")}]

\* New places for a stored block: another index, another message, or both.
BlockPlaceInputs ==
  [block_index : Nullable(BlockIndexes)]
  \cup [message_id : Nullable(1..2)]
  \cup { [message_id |-> V(2), block_index |-> V(0)] }

\* The block a client addresses in an update.
BlockIds == {1}

InsertSession ==
  \E r \in SessionInputs :
    InsertsBegun < MaxInserts /\ InsertSessionStmt(r) /\ UNCHANGED importer

InsertMessage ==
  \E r \in MessageInputs :
    InsertsBegun < MaxInserts /\ InsertMessageStmt(r) /\ UNCHANGED importer

InsertBlock ==
  \E r \in BlockInputs :
    InsertsBegun < MaxInserts /\ InsertBlockStmt(r) /\ UNCHANGED importer

DeleteSession ==
  \E sid \in 1..MaxInserts : DeleteSessionStmt(sid) /\ UNCHANGED importer

DeleteMessage ==
  \E mid \in 1..MaxInserts : DeleteMessageStmt(mid) /\ UNCHANGED importer

Importers == {"A", "B"}

Idle ==
  [pc |-> "idle", pos |-> 0, sid |-> 0, mid |-> 0, todo |-> {},
   passes |-> 0, new |-> 0, skipped |-> 0, snap |-> <<0, 0, 0>>]

\* The store after SCHEMA has been executed on an empty database.
EmptyStore ==
  /\ sessions = {}
  /\ messages = {}
  /\ content_blocks = {}
  /\ import_metadata = {}
  /\ sessions_id_seq = 0
  /\ messages_id_seq = 0
  /\ content_blocks_id_seq = 0
  /\ last = Done("none", "ok", 0, NULL)

\* No import is running or has run: only direct clients act.
Init ==
  /\ EmptyStore
  /\ logfile = <<>>
  /\ imp = [i \in Importers |-> Idle]
  /\ origin = <<>>

UpdateBlockPlace ==
  \E bid \in BlockIds, set \in BlockPlaceInputs :
    UpdateBlockPlaceStmt(bid, set) /\ UNCHANGED importer

Next ==
  \/ InsertSession
  \/ InsertMessage
  \/ InsertBlock
  \/ UpdateBlockPlace
  \/ DeleteSession
  \/ DeleteMessage

Spec == Init /\ [][Next]_vars

\* Inputs that exercise the token columns.
SessionTokenInputs ==
  [session_uuid : Nullable(SessionUuids)]
  \cup [session_uuid : Nullable(SessionUuids), total_input_tokens : TokenValues]
  \cup [session_uuid : Nullable(SessionUuids),
        total_input_tokens : TokenValues, total_output_tokens : TokenValues]

MessageTokenInputs ==
  [session_id : {V(1)}, uuid : {NULL}, type : {V("assistant")}]
  \cup [session_id : {V(1)}, uuid : {NULL}, type : {V("assistant")},
        output_tokens : TokenValues]
  \cup [session_id : {V(1)}, uuid : {NULL}, type : {V("assistant")},
        input_tokens : TokenValues, output_tokens : TokenValues]

InsertSessionTokens ==
  \E r \in SessionTokenInputs :
    InsertsBegun < MaxTokenInserts /\ InsertSessionStmt(r) /\ UNCHANGED importer

InsertMessageTokens ==
  \E r \in MessageTokenInputs :
    InsertsBegun < MaxTokenInserts /\ InsertMessageStmt(r) /\ UNCHANGED importer

NextTokens ==
  \/ InsertSessionTokens
  \/ InsertMessageTokens
  \/ DeleteSession

SpecTokens == Init /\ [][NextTokens]_vars

\* Inputs that exercise text_content and the generated search vector.
SearchSessionInputs == [session_uuid : {V("s1")}]

SearchMessageInputs == [session_id : {V(1)}, uuid : {V("m1")}, type : {V("user")}]

BlockTextInputs ==
  [message_id : {V(1)}, block_index : {V(0)}, block_type : {V("text")},
   text_content : Texts]
  \cup [message_id : {V(1)}, block_index : {V(0)}, block_type : {V("tool_result")}]
  \cup [message_id : {V(1)}, block_index : {V(0)}, block_type : {V("text")},
        text_content : Texts,
        content_tsvector : {ContentTsvector(t) : t \in Texts}]

InsertSessionSearch ==
  \E r \in SearchSessionInputs :
    InsertsBegun < MaxSearchInserts /\ InsertSessionStmt(r) /\ UNCHANGED importer

InsertMessageSearch ==
  \E r \in SearchMessageInputs :
    InsertsBegun < MaxSearchInserts /\ InsertMessageStmt(r) /\ UNCHANGED importer

InsertBlockText ==
  \E r \in BlockTextInputs :
    InsertsBegun < MaxSearchInserts /\ InsertBlockStmt(r) /\ UNCHANGED importer

UpdateBlockText ==
  \E bid \in 1..MaxSearchInserts, text \in Texts :
    UpdateBlockTextStmt(bid, text) /\ UNCHANGED importer

UpdateBlockTsvector ==
  \E bid \in 1..MaxSearchInserts, text \in Texts :
    UpdateBlockTsvectorStmt(bid, ContentTsvector(text)) /\ UNCHANGED importer

NextSearch ==
  \/ InsertSessionSearch
  \/ InsertMessageSearch
  \/ InsertBlockText
  \/ UpdateBlockText
  \/ UpdateBlockTsvector
  \/ DeleteMessage

SpecSearch == Init /\ [][NextSearch]_vars

\* Inputs that exercise import_metadata.
ImportMetadataInputs ==
  [project_path : Nullable(ProjectPaths),
   last_import_timestamp : Nullable(1..MaxTimestamp)]
  \cup [project_path : Nullable(ProjectPaths)]

InsertImportMetadata ==
  \E r \in ImportMetadataInputs :
    InsertImportMetadataStmt(r) /\ UNCHANGED importer

UpsertImportMetadata ==
  \E r \in ImportMetadataInputs :
    UpsertImportMetadataStmt(r) /\ UNCHANGED importer

NextMeta ==
  \/ InsertImportMetadata
  \/ UpsertImportMetadata

SpecMeta == Init /\ [][NextMeta]_vars

\* ------------------------------------------------------------------------
\* Importers: the collaborator that loads a log file into the store
\* ------------------------------------------------------------------------
\* A log entry is one message with its content blocks in their order in the
\* message.  An importer makes sure the entry's session exists, inserts the
\* entry as a message, skips the entry when that insert fails with a
\* uniqueness violation, and otherwise inserts the entry's blocks, block k at
\* block_index k - 1, in any physical order.  Every statement commits on its
\* own.  After the last entry the importer upserts the project's watermark.
Entry(su, u, blocks) ==
  [session_uuid |-> su, uuid |-> u, type |-> "user", blocks |-> blocks]

TextA == <<"Hello", "Worlds">>
TextB == <<"The", "world">>
TextC == <<"hello">>

LogFiles ==
  { << Entry("s1", V("m1"), <<TextB, TextA>>), Entry("s1", V("m2"), <<TextC>>) >>,
    << Entry("s1", V("m1"), <<TextC, TextB, TextA>>) >>,
    << Entry("s1", V("m1"), <<TextA>>), Entry("s2", V("m1"), <<TextB, TextA>>) >>,
    << Entry("s1", NULL, <<TextB, TextA>>), Entry("s2", V("m2"), <<>>) >> }

ImportProject == "/repo/a"

\* Row counts of sessions, messages and content_blocks.
Counts ==
  <<Cardinality(sessions), Cardinality(messages), Cardinality(content_blocks)>>

\* Every entry of the file carries a UUID.
StableUuids == \A k \in 1..Len(logfile) : ~IsNull(logfile[k].uuid)

\* The importer's state once it is through with the entry at pos.
EntryDone(st) ==
  IF st.pos < Len(logfile)
  THEN [st EXCEPT !.pc = "session", !.pos = st.pos + 1, !.todo = {}]
  ELSE [st EXCEPT !.pc = "watermark", !.todo = {}]

\* Passes begun so far, by all importers together.
PassesBegun ==
  LET begun(i) == imp[i].passes + (IF imp[i].pc = "idle" THEN 0 ELSE 1)
  IN begun("A") + begun("B")

StartPass(i) ==
  /\ imp[i].pc = "idle"
  /\ PassesBegun < MaxPasses
  /\ imp' = [imp EXCEPT ![i] = [@ EXCEPT !.pc = "session", !.pos = 1,
                                         !.new = 0, !.skipped = 0,
                                         !.snap = Counts]]
  /\ UNCHANGED <<tables, seqs, last, logfile, origin>>

\* SELECT id FROM sessions WHERE session_uuid = the entry's
LookupSession(i) ==
  /\ imp[i].pc = "session"
  /\ LET e == logfile[imp[i].pos]
         found == { s \in sessions : s.session_uuid = V(e.session_uuid) }
     IN imp' = [imp EXCEPT ![i] =
                  IF found = {} THEN [@ EXCEPT !.pc = "create_session"]
                  ELSE [@ EXCEPT !.pc = "message",
                                 !.sid = (CHOOSE s \in found : TRUE).id]]
  /\ UNCHANGED <<tables, seqs, last, logfile, origin>>

CreateSession(i) ==
  /\ imp[i].pc = "create_session"
  /\ InsertSessionStmt([session_uuid |-> V(logfile[imp[i].pos].session_uuid)])
  /\ imp' = [imp EXCEPT ![i] =
               IF last'.err = "ok"
               THEN [@ EXCEPT !.pc = "message", !.sid = last'.id]
               ELSE [@ EXCEPT !.pc = "session"]]
  /\ UNCHANGED <<logfile, origin>>

ImportMessage(i) ==
  /\ imp[i].pc = "message"
  /\ LET e == logfile[imp[i].pos]
     IN /\ InsertMessageStmt([session_id |-> V(imp[i].sid), uuid |-> e.uuid,
                              type |-> V(e.type)])
        /\ imp' = [imp EXCEPT ![i] =
                     CASE last'.err = "ok" ->
                            IF Len(e.blocks) = 0
                            THEN EntryDone([@ EXCEPT !.mid = last'.id,
                                                     !.new = @ + 1])
                            ELSE [@ EXCEPT !.pc = "blocks", !.mid = last'.id,
                                           !.todo = 1..Len(e.blocks),
                                           !.new = @ + 1]
                       [] last'.err = "unique_violation" ->
                            EntryDone([@ EXCEPT !.skipped = @ + 1])
                       [] OTHER -> [@ EXCEPT !.pc = "failed"]]
        /\ origin' = IF last'.err = "ok"
                     THEN origin @@ (last'.id :> e.blocks)
                     ELSE origin
  /\ UNCHANGED logfile

ImportBlock(i) ==
  /\ imp[i].pc = "blocks"
  /\ \E k \in imp[i].todo :
       /\ InsertBlockStmt([message_id |-> V(imp[i].mid),
                           block_index |-> V(k - 1),
                           block_type |-> V("text"),
                           text_content |-> V(logfile[imp[i].pos].blocks[k])])
       /\ imp' = [imp EXCEPT ![i] =
                    IF last'.err # "ok" THEN [@ EXCEPT !.pc = "failed"]
                    ELSE IF imp[i].todo = {k} THEN EntryDone(@)
                    ELSE [@ EXCEPT !.todo = @ \ {k}]]
  /\ UNCHANGED <<logfile, origin>>

Watermark(i) ==
  /\ imp[i].pc = "watermark"
  /\ UpsertImportMetadataStmt([project_path |-> V(ImportProject),
                               last_import_timestamp |-> V(Len(logfile))])
  /\ imp' = [imp EXCEPT ![i] = [@ EXCEPT !.pc = "idle", !.passes = @ + 1]]
  /\ UNCHANGED <<logfile, origin>>

\* SELECT * FROM content_blocks WHERE message_id = mid ORDER BY block_index:
\* every order of the message's rows that ascends in block_index.
BlocksOf(mid) == { b \in content_blocks : b.message_id = V(mid) }

OrderedBlocks(mid) ==
  LET B == BlocksOf(mid)
      n == Cardinality(B)
  IN { q \in [1..n -> B] :
         /\ \A j, k \in 1..n : j # k => q[j] # q[k]
         /\ \A j, k \in 1..n :
              j < k => Val(q[j].block_index) <= Val(q[k].block_index) }

InitImport ==
  /\ EmptyStore
  /\ logfile \in LogFiles
  /\ imp = [i \in Importers |-> Idle]
  /\ origin = <<>>

NextImport ==
  \E i \in Importers :
    \/ StartPass(i)
    \/ LookupSession(i)
    \/ CreateSession(i)
    \/ ImportMessage(i)
    \/ ImportBlock(i)
    \/ Watermark(i)

SpecImport == InitImport /\ [][NextImport]_vars

\* ------------------------------------------------------------------------
\* Properties
\* ------------------------------------------------------------------------
\* The columns of the last statement's input, NULL where it left one out.
Arg(c) == Col(last'.arg, c, NULL)

\* The id the last insert asked for: the one it supplied, else the next value
\* of the sequence seq.
ArgId(seq) == RowId(last'.arg, seq + 1)

\* The last insert asked for an id that is not null and that no row of T has.
IdFree(seq, T) ==
  ~IsNull(ArgId(seq)) /\ \A x \in T : V(x.id) # ArgId(seq)

\* C1: deleting a session removes the session, every message whose
\* session_id is its id and every content block of those messages, so that
\* nothing that referenced it remains; the rows of other sessions are as
\* they were.
CascadeClosure ==
  [][ last'.op = "delete_session" =>
        LET sid == last'.id
            gone == { m \in messages : m.session_id = V(sid) }
        IN /\ \A s \in sessions' : s.id # sid
           /\ \A m \in messages' : m.session_id # V(sid)
           /\ \A b \in content_blocks' : \A m \in gone : b.message_id # V(m.id)
           /\ sessions' = { s \in sessions : s.id # sid }
           /\ messages' = messages \ gone
           /\ content_blocks' =
                { b \in content_blocks : \A m \in gone : b.message_id # V(m.id) }
    ]_vars

\* A session was deleted with a message and a content block of its own,
\* while a message of another session stays.
CascadeWitness ==
  /\ last.op = "delete_session"
  /\ RowCount + 3 <= last.before
  /\ messages # {}

\* In every state a non-null uuid is carried by at most one message row.
UuidUnique ==
  \A m1, m2 \in messages :
    (~IsNull(m1.uuid) /\ m1.uuid = m2.uuid) => m1 = m2

\* C2: at most one message row carries a given non-null uuid, across all
\* sessions; an insert of a message whose non-null uuid is already stored
\* fails and stores nothing (with a uniqueness violation when the row has its
\* required columns and a non-null id); an insert of a message with a null
\* uuid, its required columns, an existing session and an id that is free
\* succeeds whatever uuids, null or not, the stored rows carry.
MessageUuidUnique ==
  /\ []UuidUnique
  /\ [][ last'.op = "insert_message" =>
           LET u == Arg("uuid")
               wellformed == /\ ~IsNull(Arg("session_id")) /\ ~IsNull(Arg("type"))
                             /\ ~IsNull(ArgId(messages_id_seq))
           IN /\ (~IsNull(u) /\ \E m \in messages : m.uuid = u) =>
                   /\ last'.err # "ok"
                   /\ messages' = messages
                   /\ wellformed => last'.err = "unique_violation"
              /\ ( /\ IsNull(u)
                   /\ wellformed
                   /\ IdFree(messages_id_seq, messages)
                   /\ \E s \in sessions : V(s.id) = Arg("session_id") ) =>
                   /\ last'.err = "ok"
                   /\ \E m \in messages' \ messages :
                        m.id = last'.id /\ IsNull(m.uuid)
       ]_vars

\* Two messages without uuid are stored, and an insert that repeats the
\* uuid of a stored message has just failed with a uniqueness violation.
MessageUuidWitness ==
  /\ last.op = "insert_message"
  /\ last.err = "unique_violation"
  /\ ~IsNull(last.arg.uuid)
  /\ \E m \in messages : m.uuid = last.arg.uuid
  /\ \E m1, m2 \in messages : m1 # m2 /\ IsNull(m1.uuid) /\ IsNull(m2.uuid)

\* Each message references an existing session and each content block an
\* existing message.
ReferencesExist ==
  /\ \A m \in messages : \E s \in sessions : m.session_id = V(s.id)
  /\ \A b \in content_blocks : \E m \in messages : b.message_id = V(m.id)

\* C6: an insert that violates a constraint (a message whose session_id
\* names no session, a block whose message_id names no message, a message
\* without type, a block without block_type or block_index, a message whose
\* non-null uuid is stored already, a row whose id is null or taken) reports
\* an error and leaves every table as it was; every message references an existing session and every content
\* block an existing message.
RejectedInsertStoresNothing ==
  /\ []ReferencesExist
  /\ [][ last'.op \in {"insert_session", "insert_message", "insert_block"} =>
           /\ last'.err # "ok" => UNCHANGED tables
           /\ ( \/ /\ last'.op = "insert_session"
                   /\ ~IdFree(sessions_id_seq, sessions)
                \/ /\ last'.op = "insert_message"
                   /\ ~IdFree(messages_id_seq, messages)
                \/ /\ last'.op = "insert_block"
                   /\ ~IdFree(content_blocks_id_seq, content_blocks) )
              => last'.err # "ok"
           /\ ( /\ last'.op = "insert_message"
                /\ \/ ~\E s \in sessions : V(s.id) = Arg("session_id")
                   \/ IsNull(Arg("type"))
                   \/ /\ ~IsNull(Arg("uuid"))
                      /\ \E m \in messages : m.uuid = Arg("uuid") )
              => last'.err # "ok"
           /\ ( /\ last'.op = "insert_block"
                /\ \/ ~\E m \in messages : V(m.id) = Arg("message_id")
                   \/ IsNull(Arg("block_type"))
                   \/ IsNull(Arg("block_index")) )
              => last'.err # "ok"
       ]_vars

\* A message naming a session that does not exist has just been refused,
\* while sessions, messages and blocks are stored.
RejectedInsertWitness ==
  /\ last.op = "insert_message"
  /\ last.err = "foreign_key_violation"
  /\ sessions # {} /\ messages # {} /\ content_blocks # {}

\* C9, as stated: no two content blocks of one message have the same
\* block_index.
BlockIndexUnique ==
  \A b1, b2 \in content_blocks :
    (b1.message_id = b2.message_id /\ b1.block_index = b2.block_index)
      => b1 = b2

\* C9, amended: the store accepts a content block that has its required
\* columns, an existing message, an id that is free and no value for the
\* generated content_tsvector whatever block_index the message's other
\* blocks carry, and it accepts an update that moves a stored block to a
\* non-null block_index of an existing message whatever blocks are there;
\* block_index stops being unique per message only by such an insert or
\* update, which puts a block at a (message_id, block_index) that another
\* block holds already.
BlockIndexUniqueUnlessInsertedTwice ==
  [][ /\ ( /\ last'.op = "insert_block"
           /\ "content_tsvector" \notin DOMAIN last'.arg
           /\ ~IsNull(Arg("block_index")) /\ ~IsNull(Arg("block_type"))
           /\ IdFree(content_blocks_id_seq, content_blocks)
           /\ \E m \in messages : V(m.id) = Arg("message_id") )
         => last'.err = "ok"
      /\ ( /\ last'.op = "update_block_place"
           /\ \A b \in content_blocks :
                b.id = last'.id =>
                  /\ ~IsNull(MovedBlock(b, last'.arg).block_index)
                  /\ \E m \in messages :
                       V(m.id) = MovedBlock(b, last'.arg).message_id )
         => /\ last'.err = "ok"
            /\ \A b \in content_blocks :
                 b.id = last'.id => MovedBlock(b, last'.arg) \in content_blocks'
      /\ (BlockIndexUnique /\ ~BlockIndexUnique') =>
           /\ last'.op \in {"insert_block", "update_block_place"}
           /\ last'.err = "ok"
           /\ \E b \in content_blocks', c \in content_blocks :
                /\ b.id = last'.id /\ c.id # last'.id
                /\ b.message_id = c.message_id
                /\ b.block_index = c.block_index
    ]_vars

\* A block has just been stored at a block_index its message already had.
BlockIndexTwiceWitness ==
  /\ last.op = "insert_block"
  /\ last.err = "ok"
  /\ \E b, c \in content_blocks :
       /\ b.id = last.id /\ c.id # b.id
       /\ b.message_id = c.message_id /\ b.block_index = c.block_index

\* The row the last insert stored in table T.
Stored(T) == { x \in T : x.id = last.id }

\* A session inserted without a token total stores 0 in that column.
SessionTokensDefaultZero ==
  (last.op = "insert_session" /\ last.err = "ok") =>
    \A x \in Stored(sessions) :
      /\ "total_input_tokens" \notin DOMAIN last.arg
           => x.total_input_tokens = V(0)
      /\ "total_output_tokens" \notin DOMAIN last.arg
           => x.total_output_tokens = V(0)

\* C7, as stated: a session inserted without token totals and a message
\* inserted without input_tokens / output_tokens both store 0, never null, in
\* those columns.
TokenCountsDefaultZero ==
  /\ SessionTokensDefaultZero
  /\ (last.op = "insert_message" /\ last.err = "ok") =>
       \A x \in Stored(messages) :
         /\ "input_tokens" \notin DOMAIN last.arg => x.input_tokens = V(0)
         /\ "output_tokens" \notin DOMAIN last.arg => x.output_tokens = V(0)

\* C7, amended: a session inserted without token totals stores 0, never
\* null, in total_input_tokens and total_output_tokens; a message inserted
\* without input_tokens / output_tokens stores null in those columns.
SessionTokensZeroMessageTokensNull ==
  /\ SessionTokensDefaultZero
  /\ (last.op = "insert_message" /\ last.err = "ok") =>
       \A x \in Stored(messages) :
         /\ "input_tokens" \notin DOMAIN last.arg => IsNull(x.input_tokens)
         /\ "output_tokens" \notin DOMAIN last.arg => IsNull(x.output_tokens)

\* A message has just been stored without input_tokens, next to a session
\* that was stored without token totals.
TokenDefaultsWitness ==
  /\ last.op = "insert_message"
  /\ last.err = "ok"
  /\ "input_tokens" \notin DOMAIN last.arg
  /\ \E x \in Stored(messages) : IsNull(x.input_tokens)
  /\ \E s \in sessions :
       s.total_input_tokens = V(0) /\ s.total_output_tokens = V(0)

\* The vector to_tsvector('english', COALESCE(text, '')) of a text value.
VectorOf(text) == to_tsvector(IF IsNull(text) THEN <<>> ELSE Val(text))

\* C5: the content_tsvector of every content block is the search vector of
\* its text_content (of the empty string when text_content is null); an
\* update of text_content writes the text and its vector in the same row
\* write; an insert or update that gives content_tsvector a value is refused
\* and changes no table.
SearchVectorFollowsText ==
  /\ [](\A b \in content_blocks : b.content_tsvector = VectorOf(b.text_content))
  /\ [][ /\ ( \/ last'.op = "update_block_tsvector"
              \/ /\ last'.op = "insert_block"
                 /\ "content_tsvector" \in DOMAIN last'.arg )
            => (last'.err = "generated_always" /\ UNCHANGED tables)
         /\ last'.op = "update_block_text" =>
              /\ last'.err = "ok"
              /\ \A b \in content_blocks' :
                   b.id = last'.id =>
                     /\ b.text_content = last'.arg
                     /\ b.content_tsvector = VectorOf(last'.arg)
              /\ (\E b \in content_blocks : b.id = last'.id)
                   => (\E c \in content_blocks' : c.id = last'.id)
       ]_vars

\* The text of a stored block has just been updated to "The world", whose
\* vector holds the one lexeme world at position 2, while another block
\* holds "Hello Worlds" with the lexemes hello and world.
SearchVectorWitness ==
  /\ last.op = "update_block_text"
  /\ \E b \in content_blocks :
       /\ b.id = last.id
       /\ b.text_content = V(<<"The", "world">>)
       /\ b.content_tsvector = {<<"world", 2>>}
  /\ \E b \in content_blocks :
       /\ b.text_content = V(<<"Hello", "Worlds">>)
       /\ b.content_tsvector = {<<"hello", 1>>, <<"world", 2>>}

\* C10: import_metadata holds at most one row per project path; an upsert
\* replaces the timestamp of the project's row or adds the project's first
\* row; a plain insert for a project that has a row fails; a row without
\* last_import_timestamp is refused; the rows of other projects are as they
\* were.
OneWatermarkPerProject ==
  /\ [](\A i1, i2 \in import_metadata :
          /\ i1.project_path = i2.project_path => i1 = i2
          /\ ~IsNull(i1.project_path) /\ ~IsNull(i1.last_import_timestamp))
  /\ [][ last'.op \in {"insert_import_metadata", "upsert_import_metadata"} =>
           LET p == Arg("project_path")
               t == Arg("last_import_timestamp")
               others(T) == { i \in T : i.project_path # p }
               had == \E i \in import_metadata : i.project_path = p
           IN /\ others(import_metadata') = others(import_metadata)
              /\ IsNull(t) =>
                   (last'.err # "ok" /\ import_metadata' = import_metadata)
              /\ ( /\ last'.op = "upsert_import_metadata"
                   /\ ~IsNull(t) /\ ~IsNull(p) ) =>
                   /\ last'.err = "ok"
                   /\ { i \in import_metadata' : i.project_path = p }
                        = { [project_path |-> p, last_import_timestamp |-> t] }
                   /\ had => Cardinality(import_metadata')
                               = Cardinality(import_metadata)
              /\ (last'.op = "insert_import_metadata" /\ had) =>
                   (last'.err # "ok" /\ import_metadata' = import_metadata)
       ]_vars

\* An upsert has just replaced the watermark of a project that had a row,
\* next to the row of another project.
OneWatermarkWitness ==
  /\ last.op = "upsert_import_metadata"
  /\ last.err = "ok"
  /\ last.before = RowCount
  /\ Cardinality(import_metadata) = 2

\* Importer i has completed a pass and no other importer has begun one.
AloneAfter(i, n) ==
  /\ imp[i].pc = "idle"
  /\ imp[i].passes >= n
  /\ \A j \in Importers \ {i} : imp[j].pc = "idle" /\ imp[j].passes = 0

\* C3: when a log file whose entries all carry a uuid has been imported and
\* is imported again, the second pass inserts no message and leaves the row
\* counts of sessions, messages and content_blocks as the first pass left
\* them.
ReimportAddsNothing ==
  \A i \in Importers :
    (AloneAfter(i, 2) /\ StableUuids) =>
      /\ Counts = imp[i].snap
      /\ imp[i].new = 0
      /\ imp[i].skipped = Len(logfile)

\* One importer has imported a file of two entries with uuids twice: the
\* second pass skipped both entries, and three blocks are stored.
ReimportWitness ==
  \E i \in Importers :
    /\ AloneAfter(i, 2)
    /\ StableUuids
    /\ Len(logfile) = 2
    /\ imp[i].skipped = 2
    /\ Counts = <<1, 2, 3>>

\* C4: under every interleaving of two importers of the same file no two
\* message rows carry one non-null uuid; the only message insert that fails
\* is the one that repeats a stored uuid, and it fails with a uniqueness
\* violation; once a pass is complete every entry with a uuid is exactly one
\* message row.
RacingImportsOneRowPerUuid ==
  /\ UuidUnique
  /\ \A i \in Importers : imp[i].pc # "failed"
  /\ (last.op = "insert_message" /\ last.err # "ok") =>
       /\ last.err = "unique_violation"
       /\ \E m \in messages : ~IsNull(m.uuid) /\ m.uuid = last.arg.uuid
  /\ (\E i \in Importers : imp[i].passes >= 1) =>
       \A k \in 1..Len(logfile) :
         ~IsNull(logfile[k].uuid) =>
           Cardinality({ m \in messages : m.uuid = logfile[k].uuid }) = 1

\* Two importers have each completed a pass over the same file of entries
\* with uuids, each of them having stored one entry and skipped the other.
RacingImportsWitness ==
  /\ StableUuids
  /\ \A i \in Importers :
       /\ imp[i].pc = "idle" /\ imp[i].passes = 1
       /\ imp[i].new = 1 /\ imp[i].skipped = 1

\* C8: for a message whose N blocks are all stored, at indices 0..N-1, the
\* blocks retrieved in ascending block_index are the blocks of the log entry
\* in their order in the message, whatever the order in which the rows were
\* inserted and whatever other rows were inserted in between.
OrderedRetrievalReproducesOrder ==
  \A mid \in DOMAIN origin :
    Cardinality(BlocksOf(mid)) = Len(origin[mid]) =>
      /\ OrderedBlocks(mid) # {}
      /\ \A q \in OrderedBlocks(mid) :
           /\ \A k \in 1..Len(origin[mid]) :
                /\ Val(q[k].block_index) = k - 1
                /\ Val(q[k].text_content) = origin[mid][k]

\* The three blocks of a message are all stored and were inserted in an
\* order other than their order in the message.
OrderedRetrievalWitness ==
  \E mid \in DOMAIN origin :
    /\ Len(origin[mid]) = 3
    /\ Cardinality(BlocksOf(mid)) = 3
    /\ \E b, c \in BlocksOf(mid) :
         b.id < c.id /\ Val(b.block_index) > Val(c.block_index)

====
